---- MODULE Spec2Model ----
(***************************************************************************)
(* shellexpand (src/src/lib.rs): env_with_context, tilde_with_context and  *)
(* full_with_context as a state machine.                                   *)
(*                                                                         *)
(* A string is the sequence of its UTF-8 bytes; every index below is a     *)
(* 0-based byte index, as in the Rust source.  One call is modelled per     *)
(* behaviour: Init chooses the operation, its input and what is known of   *)
(* the lookup function; the scanner loop of env_with_context takes one     *)
(* action per iteration.                                                   *)
(***************************************************************************)
EXTENDS Integers, Sequences, FiniteSets, TLC

VARIABLES
    op,              \* the public function called: "env", "tilde" or "full"
    input,           \* its input (input.as_ref()), as UTF-8 bytes
    pc,              \* position of the call
    input_str,       \* env_with_context: the not yet scanned rest of the input
    next_dollar_idx, \* env_with_context: index in input_str of the next `$`
    result,          \* env_with_context: the String being built
    env_ret,         \* what env_with_context returned
    ret,             \* what the called function returned
    context,         \* the lookup function, as far as it is known: name -> outcome
    calls,           \* the calls of the lookup function so far: <<name, outcome>>
    hd_log           \* what home_dir() returned, one entry per call

vars == <<op, input, pc, input_str, next_dollar_idx, result, env_ret, ret,
          context, calls, hd_log>>

(***************************************************************************)
(* Bounds and alphabets                                                    *)
(***************************************************************************)
\* longest input, in characters
MaxLen == 4

\* the characters of the inputs, each as its UTF-8 encoding; <<"C3","A9">> is
\* U+00E9, an alphanumeric character of two bytes
Chars == { <<"$">>, <<"{">>, <<"}">>, <<"~">>, <<"/">>, <<"a">>, <<"_">>,
           <<"C3", "A9">> }

\* UTF-8 continuation bytes: an index that points at one is no char boundary
ContBytes == { "A9", "BF", "BD" }

RECURSIVE StringsOfLen(_)
StringsOfLen(n) ==
    IF n = 0 THEN { <<>> }
    ELSE { s \o c : s \in StringsOfLen(n - 1), c \in Chars }

Inputs == UNION { StringsOfLen(n) : n \in 0..MaxLen }

\* values a lookup may resolve a name to (CO: AsRef<str>)
Values == { <<>>, <<"~">>, <<"/">>, <<"a">>, <<"$", "a">> }

\* causes a lookup may fail with (the caller's E)
Causes == { "c1", "c2" }

\* paths home_dir() may return, as OS bytes; "FF" is a byte that is not UTF-8
HomeDirs == { <<"h">>, <<"$", "a">>, <<"h", "FF">> }

(***************************************************************************)
(* Result<Option<CO>, E> of the lookup, Option<P> of home_dir              *)
(***************************************************************************)
OkSome(v) == [tag |-> "Some", value |-> v, cause |-> "-"]
OkNone == [tag |-> "None", value |-> <<>>, cause |-> "-"]
Failed(c) == [tag |-> "Err", value |-> <<>>, cause |-> c]

Outcomes == { OkNone } \cup { OkSome(v) : v \in Values } \cup { Failed(c) : c \in Causes }

HdNone == [tag |-> "None", path |-> <<>>]
HdSome(p) == [tag |-> "Some", path |-> p]

HomeOutcomes == { HdNone } \cup { HdSome(p) : p \in HomeDirs }

(***************************************************************************)
(* Cow<str> and Result<Cow<str>, LookupError<E>>                           *)
(***************************************************************************)
NoName == <<>>

Pending == [kind |-> "Pending", text |-> <<>>, name |-> NoName, cause |-> "-"]
Borrowed(s) == [kind |-> "Borrowed", text |-> s, name |-> NoName, cause |-> "-"]
Owned(s) == [kind |-> "Owned", text |-> s, name |-> NoName, cause |-> "-"]

\* mutant: the error does not carry the name
LookupErrorNoName(name, cause) == [kind |-> "Err", text |-> <<>>, name |-> NoName, cause |-> cause]

LookupError(name, cause) == [kind |-> "Err", text |-> <<>>, name |-> name, cause |-> cause]

IsText(r) == r.kind \in { "Borrowed", "Owned" }

(***************************************************************************)
(* str primitives                                                          *)
(***************************************************************************)
\* str::is_char_boundary
IsCharBoundary(s, i) ==
    \/ i = 0
    \/ i = Len(s)
    \/ i > 0 /\ i < Len(s) /\ s[i + 1] \notin ContBytes

\* &s[from..], &s[..to], &s[from..to]; each panics unless its ends are char
\* boundaries of s (see the Panics definitions of the actions)
SliceFrom(s, from) == SubSeq(s, from + 1, Len(s))
SliceTo(s, to) == SubSeq(s, 1, to)
Slice(s, from, to) == SubSeq(s, from + 1, to)

SliceOk(s, from, to) ==
    from <= to /\ to <= Len(s) /\ IsCharBoundary(s, from) /\ IsCharBoundary(s, to)

\* s.starts_with(p) for a pattern p of one byte
StartsWith(s, p) == Len(s) >= 1 /\ s[1] = p

\* s.find(c) for a character c of one byte; None is -1
Find(s, c) ==
    IF \E i \in 1..Len(s) : s[i] = c
    THEN (CHOOSE i \in 1..Len(s) : s[i] = c /\ \A j \in 1..(i - 1) : s[j] # c) - 1
    ELSE -1

\* number of bytes of the character whose first byte is b
Utf8Width(b) == IF b = "C3" THEN 2 ELSE IF b = "EF" THEN 3 ELSE 1

\* the character that starts at index i of s
CharAt(s, i) == SubSeq(s, i + 1, i + Utf8Width(s[i + 1]))

\* char::is_alphanumeric on the characters of the model
IsAlphanumeric(c) == c \in { <<"a">>, <<"C3", "A9">> }

is_valid_var_name_char(c) == IsAlphanumeric(c) \/ c = <<"_">>

\* s.find(|c: char| !is_valid_var_name_char(c)), searching from index i; None is -1
RECURSIVE FindNotNameChar(_, _)
FindNotNameChar(s, i) ==
    IF i >= Len(s) THEN -1
    ELSE LET c == CharAt(s, i)
         IN  IF ~is_valid_var_name_char(c) THEN i
             ELSE FindNotNameChar(s, i + Len(c))

\* fn find_dollar(s: &str) -> usize
find_dollar(s) == IF Find(s, "$") = -1 THEN Len(s) ELSE Find(s, "$")

\* input_str[1..].chars().next(); None is <<>>
NextChar(s) == IF Len(s) <= 1 THEN <<>> ELSE CharAt(s, 1)

(***************************************************************************)
(* Path::display                                                           *)
(***************************************************************************)
\* the lossy text of a path: a byte that is not UTF-8 becomes U+FFFD
RECURSIVE Display(_)
Display(p) ==
    IF p = <<>> THEN <<>>
    ELSE (IF Head(p) = "FF" THEN <<"EF", "BF", "BD">> ELSE <<Head(p)>>) \o Display(Tail(p))

(***************************************************************************)
(* tilde_with_context                                                      *)
(***************************************************************************)
\* mutant: every `~...` is taken for the user's own home directory
TildeEligibleAlways(input_after_tilde) == TRUE

\* input_after_tilde.is_empty() || input_after_tilde.starts_with("/")
TildeEligible(input_after_tilde) ==
    input_after_tilde = <<>> \/ StartsWith(input_after_tilde, "/")

\* mutant: the text after the `~` is dropped
TildeExpandedHomeOnly(hd, input_after_tilde) == Display(hd)

\* format!("{}{}", hd.as_ref().display(), input_after_tilde)
TildeExpanded(hd, input_after_tilde) == Display(hd) \o input_after_tilde

\* does tilde_with_context(s, home_dir) call home_dir?
TildeCallsHome(s) == StartsWith(s, "~") /\ TildeEligible(SliceFrom(s, 1))

\* tilde_with_context(s, home_dir), hd being what home_dir() returns when called
tilde_with_context(s, hd) ==
    IF StartsWith(s, "~")
    THEN LET input_after_tilde == SliceFrom(s, 1)
         IN  IF TildeEligible(input_after_tilde)
             THEN IF hd.tag = "Some"
                  THEN Owned(TildeExpanded(hd.path, input_after_tilde))
                  ELSE Borrowed(s)
             ELSE Borrowed(s)
    ELSE Borrowed(s)

(***************************************************************************)
(* The lookup function (context) and the try_lookup! macro                 *)
(***************************************************************************)
\* what is known of the lookup function when the call starts: nothing, or that
\* it fails for the name `a` with cause c1
UnknownContext == <<>>

InitialContexts == { UnknownContext, (<<"a">> :> Failed("c1")) }

\* what context(name) may return: the lookup is a function of the name
LookupOutcomes(name) ==
    IF name \in DOMAIN context THEN { context[name] } ELSE Outcomes

Learned(name, e) ==
    IF name \in DOMAIN context THEN context ELSE (name :> e) @@ context

\* mutant: a failed lookup is taken for an unknown name
try_lookup_swallow(name, e) == [returns |-> FALSE, err |-> Pending]

\* try_lookup!(name, e): Err(e) leaves env_with_context with the LookupError
try_lookup(name, e) ==
    IF e.tag = "Err"
    THEN [returns |-> TRUE, err |-> LookupError(name, e.cause)]
    ELSE [returns |-> FALSE, err |-> Pending]

(***************************************************************************)
(* env_with_context                                                        *)
(***************************************************************************)
\* mutant: the input is copied even when it holds no `$`
EnvNoDollarOwned(s) == Owned(s)

\* Ok(input_str.into()) when the input holds no `$`
EnvNoDollar(s) == Borrowed(s)

\* Ok(result.into()) when the loop ends
EnvBuilt(s) == Owned(s)

\* env_with_context returns r: to the caller, or into the closure of full_with_context
EnvReturns(r) ==
    /\ env_ret' = r
    /\ IF op = "env"
       THEN ret' = r /\ pc' = "done"
       ELSE ret' = ret /\ pc' = "full"

Init ==
    /\ op \in { "env", "tilde", "full" }
    /\ input \in Inputs
    /\ pc = "start"
    /\ input_str = <<>>
    /\ next_dollar_idx = 0
    /\ result = <<>>
    /\ env_ret = Pending
    /\ ret = Pending
    /\ context \in (IF op = "tilde" THEN { UnknownContext } ELSE InitialContexts)
    /\ calls = <<>>
    /\ hd_log = <<>>

\* input_str.find('$') and what follows it outside the loop
EnvStart ==
    /\ pc = "start"
    /\ op \in { "env", "full" }
    /\ LET idx == Find(input, "$")
       IN  IF idx = -1
           THEN /\ EnvReturns(EnvNoDollar(input))
                /\ UNCHANGED <<input_str, next_dollar_idx, result>>
           ELSE /\ result' = <<>>
                /\ input_str' = input
                /\ next_dollar_idx' = idx
                /\ pc' = "loop"
                /\ UNCHANGED <<env_ret, ret>>
    /\ UNCHANGED <<op, input, context, calls, hd_log>>

\* the head of an iteration: result.push_str(&input_str[..next_dollar_idx]) and
\* input_str = &input_str[next_dollar_idx..]
Pushed == result \o SliceTo(input_str, next_dollar_idx)
AtDollar == SliceFrom(input_str, next_dollar_idx)

\* the branch an iteration takes
InBrace == NextChar(AtDollar) = <<"{">>
InBare == ~InBrace /\ NextChar(AtDollar) # <<>> /\ is_valid_var_name_char(NextChar(AtDollar))

\* if input_str.is_empty() { break; } and Ok(result.into())
LoopBreak ==
    /\ pc = "loop"
    /\ AtDollar = <<>>
    /\ result' = Pushed
    /\ input_str' = AtDollar
    /\ EnvReturns(EnvBuilt(Pushed))
    /\ UNCHANGED <<op, input, next_dollar_idx, context, calls, hd_log>>

\* mutant: a substituted value is put back in front of the text still to scan
AfterLookupRescan(s, var_name, e, unresolved, to) ==
    /\ calls' = Append(calls, <<var_name, e>>)
    /\ context' = Learned(var_name, e)
    /\ IF try_lookup(var_name, e).returns
       THEN /\ EnvReturns(try_lookup(var_name, e).err)
            /\ result' = Pushed
            /\ input_str' = s
            /\ UNCHANGED next_dollar_idx
       ELSE /\ result' = Pushed \o (IF e.tag = "Some" THEN <<>> ELSE unresolved)
            /\ input_str' = (IF e.tag = "Some" THEN e.value ELSE <<>>) \o SliceFrom(s, to)
            /\ next_dollar_idx' =
                   find_dollar((IF e.tag = "Some" THEN e.value ELSE <<>>) \o SliceFrom(s, to))
            /\ UNCHANGED <<pc, env_ret, ret>>

\* the three arms after a lookup of var_name whose reference ends at index `to`
\* of s; unresolved is the text copied when the lookup returns None
AfterLookup(s, var_name, e, unresolved, to) ==
    /\ calls' = Append(calls, <<var_name, e>>)
    /\ context' = Learned(var_name, e)
    /\ IF try_lookup(var_name, e).returns
       THEN /\ EnvReturns(try_lookup(var_name, e).err)
            /\ result' = Pushed
            /\ input_str' = s
            /\ UNCHANGED next_dollar_idx
       ELSE /\ result' = Pushed \o (IF e.tag = "Some" THEN e.value ELSE unresolved)
            /\ input_str' = SliceFrom(s, to)
            /\ next_dollar_idx' = find_dollar(SliceFrom(s, to))
            /\ UNCHANGED <<pc, env_ret, ret>>

\* &input_str[2..closing_brace_idx]
BracedName(s, closing_brace_idx) == Slice(s, 2, closing_brace_idx)

\* mutant: the closing brace is left out of the copied reference
BracedSpanNoBrace(s, closing_brace_idx) == SliceTo(s, closing_brace_idx)

\* &input_str[..closing_brace_idx+1]
BracedSpan(s, closing_brace_idx) == SliceTo(s, closing_brace_idx + 1)

\* `${` with a `}` after it: the lookup of the text between the braces
BraceLookup ==
    /\ pc = "loop"
    /\ AtDollar # <<>>
    /\ InBrace
    /\ Find(AtDollar, "}") # -1
    /\ LET s == AtDollar
           closing_brace_idx == Find(s, "}")
           var_name == BracedName(s, closing_brace_idx)
       IN  \E e \in LookupOutcomes(var_name) :
               AfterLookup(s, var_name, e, BracedSpan(s, closing_brace_idx),
                           closing_brace_idx + 1)
    /\ UNCHANGED <<op, input, hd_log>>

\* mutant: only the `$` of a malformed `${` is copied
BraceMalformedDropsBrace ==
    /\ pc = "loop"
    /\ AtDollar # <<>>
    /\ InBrace
    /\ Find(AtDollar, "}") = -1
    /\ result' = Pushed \o SliceTo(AtDollar, 1)
    /\ input_str' = SliceFrom(AtDollar, 2)
    /\ next_dollar_idx' = find_dollar(SliceFrom(AtDollar, 2))
    /\ UNCHANGED <<op, input, pc, env_ret, ret, context, calls, hd_log>>

\* `${` with no `}` after it
BraceMalformed ==
    /\ pc = "loop"
    /\ AtDollar # <<>>
    /\ InBrace
    /\ Find(AtDollar, "}") = -1
    /\ result' = Pushed \o SliceTo(AtDollar, 2)
    /\ input_str' = SliceFrom(AtDollar, 2)
    /\ next_dollar_idx' = find_dollar(SliceFrom(AtDollar, 2))
    /\ UNCHANGED <<op, input, pc, env_ret, ret, context, calls, hd_log>>

\* mutant: the name ends after its first character
EndIdxFirstChar(s) == 2

\* 2 + input_str[2..].find(|c| !is_valid_var_name_char(c)).unwrap_or(input_str.len() - 2)
EndIdx(s) ==
    2 + (IF FindNotNameChar(SliceFrom(s, 2), 0) = -1
         THEN Len(s) - 2
         ELSE FindNotNameChar(SliceFrom(s, 2), 0))

\* &input_str[1..end_idx]
BareName(s, end_idx) == Slice(s, 1, end_idx)

\* &input_str[..end_idx]
BareSpan(s, end_idx) == SliceTo(s, end_idx)

\* input_str[2..] is taken whatever the width of the character at index 1
BareSliceOk(s) == SliceOk(s, 2, Len(s))

\* `$` and a name character: the lookup of the run of name characters
BareLookup ==
    /\ pc = "loop"
    /\ AtDollar # <<>>
    /\ InBare
    /\ BareSliceOk(AtDollar)
    /\ LET s == AtDollar
           end_idx == EndIdx(s)
           var_name == BareName(s, end_idx)
       IN  \E e \in LookupOutcomes(var_name) :
               AfterLookup(s, var_name, e, BareSpan(s, end_idx), end_idx)
    /\ UNCHANGED <<op, input, hd_log>>

\* `$` and a name character of several bytes: input_str[2..] is no char
\* boundary and the slice panics
BarePanic ==
    /\ pc = "loop"
    /\ AtDollar # <<>>
    /\ InBare
    /\ ~BareSliceOk(AtDollar)
    /\ pc' = "panic"
    /\ result' = Pushed
    /\ input_str' = AtDollar
    /\ UNCHANGED <<op, input, next_dollar_idx, env_ret, ret, context, calls, hd_log>>

\* mutant: the second `$` of `$$` is not skipped
DollarSkipOne(next_char) == 1

\* how much of input_str the last arm skips: `$$` or a lone `$`
DollarSkip(next_char) == IF next_char = <<"$">> THEN 2 ELSE 1

\* `$` and anything else, the end of the input included
LiteralDollar ==
    /\ pc = "loop"
    /\ AtDollar # <<>>
    /\ ~InBrace
    /\ ~InBare
    /\ LET rest == SliceFrom(AtDollar, DollarSkip(NextChar(AtDollar)))
       IN  /\ result' = Pushed \o <<"$">>
           /\ input_str' = rest
           /\ next_dollar_idx' = find_dollar(rest)
    /\ UNCHANGED <<op, input, pc, env_ret, ret, context, calls, hd_log>>

(***************************************************************************)
(* full_with_context: the closure given to map                             *)
(***************************************************************************)
\* mutant: the check of the substituted text is missing
TildeFromVariableNever(inp, s) == FALSE

\* mutant: the check of the original input is missing
TildeFromVariableAny(inp, s) == StartsWith(s, "~")

\* !input.as_ref().starts_with("~") && s.starts_with("~")
TildeFromVariable(inp, s) == ~StartsWith(inp, "~") /\ StartsWith(s, "~")

\* does the closure reach a call of home_dir?
FullCallsHome(inp, r) ==
    IF r.kind = "Borrowed"
    THEN TildeCallsHome(r.text)
    ELSE ~TildeFromVariable(inp, r.text) /\ TildeCallsHome(r.text)

\* the closure's value for r, the Cow env_with_context returned
FullMapped(inp, r, hd) ==
    IF r.kind = "Borrowed"
    THEN tilde_with_context(r.text, hd)
    ELSE IF TildeFromVariable(inp, r.text)
         THEN Owned(r.text)
         ELSE Owned(tilde_with_context(r.text, hd).text)

FullMap ==
    /\ pc = "full"
    /\ IF env_ret.kind = "Err"
       THEN ret' = env_ret /\ hd_log' = hd_log
       ELSE IF FullCallsHome(input, env_ret)
            THEN \E hd \in HomeOutcomes :
                     /\ ret' = FullMapped(input, env_ret, hd)
                     /\ hd_log' = Append(hd_log, hd)
            ELSE /\ ret' = FullMapped(input, env_ret, HdNone)
                 /\ hd_log' = hd_log
    /\ pc' = "done"
    /\ UNCHANGED <<op, input, input_str, next_dollar_idx, result, env_ret, context, calls>>

\* tilde_with_context called as such
TildeCall ==
    /\ pc = "start"
    /\ op = "tilde"
    /\ IF TildeCallsHome(input)
       THEN \E hd \in HomeOutcomes :
                /\ ret' = tilde_with_context(input, hd)
                /\ hd_log' = Append(hd_log, hd)
       ELSE /\ ret' = tilde_with_context(input, HdNone)
            /\ hd_log' = hd_log
    /\ pc' = "done"
    /\ UNCHANGED <<op, input, input_str, next_dollar_idx, result, env_ret, context, calls>>

Next ==
    \/ EnvStart
    \/ LoopBreak
    \/ BraceLookup
    \/ BraceMalformed
    \/ BareLookup
    \/ BarePanic
    \/ LiteralDollar
    \/ FullMap
    \/ TildeCall

Spec == Init /\ [][Next]_vars

(***************************************************************************)
(* Vocabulary of the properties, stated on the text alone                  *)
(***************************************************************************)
Done == pc = "done"

HasDollar(s) == \E i \in 1..Len(s) : s[i] = "$"

Contains(s, sub) ==
    \E i \in 0..(Len(s) - Len(sub)) : SubSeq(s, i + 1, i + Len(sub)) = sub

LeadingTilde(s) == s # <<>> /\ Head(s) = "~"

\* `~` alone or `~/...`
EligibleTilde(s) == LeadingTilde(s) /\ (Len(s) = 1 \/ s[2] = "/")

\* r is the failure (name, cause)
IsFailure(r, name, cause) == r.kind = "Err" /\ r.name = name /\ r.cause = cause

CallName(i) == calls[i][1]
CallOutcome(i) == calls[i][2]

Substituted == \E i \in 1..Len(calls) : CallOutcome(i).tag = "Some"
AllUnresolved == \A i \in 1..Len(calls) : CallOutcome(i) = OkNone
HomeReplaced == \E i \in 1..Len(hd_log) : hd_log[i].tag = "Some"

\* tilde expansion of s as section 4.2 of the specification words it, h being
\* what the provider returned
SpecTilde(s, h) ==
    IF EligibleTilde(s) /\ h.tag = "Some" THEN Display(h.path) \o Tail(s) ELSE s

(***************************************************************************)
(* C1: in full_with_context, when the original input does not start with   *)
(* `~` the home-directory provider is never invoked, and if the text S     *)
(* produced by variable substitution starts with `~` the result is         *)
(* exactly S.                                                              *)
(***************************************************************************)
C1_TildeOnlyFromInput ==
    (Done /\ op = "full" /\ ~LeadingTilde(input)) =>
        /\ hd_log = <<>>
        /\ (env_ret.kind = "Owned" /\ LeadingTilde(env_ret.text)) =>
               (IsText(ret) /\ ret.text = env_ret.text)

\* a substituted value put an eligible `~` at the start of S
C1_Witness ==
    /\ Done /\ op = "full" /\ ~LeadingTilde(input)
    /\ env_ret.kind = "Owned" /\ EligibleTilde(env_ret.text)
    /\ Len(env_ret.text) > 1
    /\ ret.text = env_ret.text

(***************************************************************************)
(* C2 as written: if the lookup fails for name X with cause c, every call  *)
(* of env_with_context or full_with_context on a string that contains      *)
(* `$X` returns the failure (X, c).                                        *)
(***************************************************************************)
C2_AnyStringContaining ==
    (Done /\ op \in { "env", "full" }) =>
        \A X \in DOMAIN context :
            (context[X].tag = "Err" /\ Contains(input, <<"$">> \o X)) =>
                IsFailure(ret, X, context[X].cause)

(***************************************************************************)
(* C2 amended: if the lookup fails for name X with cause c, every call of  *)
(* env_with_context or full_with_context whose scan looks X up returns     *)
(* the failure (X, c) and no text.                                         *)
(***************************************************************************)
C2_FailFast ==
    (Done /\ op \in { "env", "full" }) =>
        \A X \in DOMAIN context :
            (context[X].tag = "Err" /\ \E i \in 1..Len(calls) : CallName(i) = X) =>
                IsFailure(ret, X, context[X].cause)

\* a reference was substituted before the failing one was reached
C2_Witness ==
    /\ Done /\ op = "full"
    /\ Len(calls) = 2
    /\ CallOutcome(1).tag = "Some"
    /\ CallOutcome(2).tag = "Err"
    /\ IsFailure(ret, CallName(2), CallOutcome(2).cause)

(***************************************************************************)
(* C3: a lookup call that fails is the last thing the operation does: it   *)
(* is the last lookup, the home-directory provider is not invoked, and     *)
(* the result is the error with that call's name and cause; an error       *)
(* result occurs only after a failed lookup call.                          *)
(***************************************************************************)
C3_ErrorEndsTheCall ==
    /\ \A i \in 1..Len(calls) :
           CallOutcome(i).tag = "Err" =>
               /\ i = Len(calls)
               /\ hd_log = <<>>
               /\ pc \in { "full", "done" }
               /\ IsFailure(env_ret, CallName(i), CallOutcome(i).cause)
               /\ Done => IsFailure(ret, CallName(i), CallOutcome(i).cause)
    /\ (ret.kind = "Err" \/ env_ret.kind = "Err") =>
           (calls # <<>> /\ CallOutcome(Len(calls)).tag = "Err")

\* full_with_context on an input with a leading `~`, ended by a failed lookup
\* of a non-empty name
C3_Witness ==
    /\ Done /\ op = "full" /\ LeadingTilde(input)
    /\ calls # <<>>
    /\ CallOutcome(Len(calls)).tag = "Err"
    /\ CallName(Len(calls)) # <<>>
    /\ ret.kind = "Err"

C5_ZeroCopyIdentity ==
    (pc # "start" /\ pc # "loop" /\ pc # "full" /\ ~HasDollar(input) /\ ~EligibleTilde(input)) =>
        /\ ret = Borrowed(input)
        /\ calls = <<>>
        /\ hd_log = <<>>

\* `~` followed by something other than `/`
C5_Witness ==
    /\ Done /\ op = "full"
    /\ LeadingTilde(input) /\ ~EligibleTilde(input) /\ ~HasDollar(input)
    /\ ret = Borrowed(input)

(***************************************************************************)
(* C6: when the lookup returns unresolved, env_with_context copies the     *)
(* whole reference (`$NAME`, or `${NAME}` with both braces) to the output  *)
(* and goes on after it; hence, when every lookup is unresolved and the    *)
(* input contains no `$$`, the output is the input.                        *)
(***************************************************************************)
C6_ReferenceOf(name) ==
    IF Len(AtDollar) >= 2 /\ AtDollar[2] = "{"
    THEN <<"$", "{">> \o name \o <<"}">>
    ELSE <<"$">> \o name

C6_UnresolvedStep ==
    (calls' # calls /\ calls'[Len(calls')][2] = OkNone) =>
        LET span == C6_ReferenceOf(calls'[Len(calls')][1])
        IN  /\ result' = result \o SubSeq(input_str, 1, next_dollar_idx) \o span
            /\ AtDollar = span \o input_str'
            /\ pc' = "loop"

C6_UnknownPassthrough ==
    /\ [][C6_UnresolvedStep]_vars
    /\ [](( Done /\ op = "env" /\ AllUnresolved /\ ~Contains(input, <<"$", "$">>) ) =>
             (IsText(ret) /\ ret.text = input))

\* a braced reference to a name that the lookup does not resolve
C6_Witness ==
    /\ Done /\ op = "env"
    /\ Len(calls) = 1
    /\ CallName(1) # <<>>
    /\ AllUnresolved
    /\ Contains(input, <<"$", "{">>)
    /\ ret.text = input

(***************************************************************************)
(* C7: at `$$` env_with_context emits one `$`, consumes both dollars,      *)
(* calls no lookup and scans on after the second `$`; `$$` gives `$` and   *)
(* `a$$a` gives `a$a` whatever the lookup.                                 *)
(***************************************************************************)
C7_AtEscape ==
    /\ pc = "loop"
    /\ Len(AtDollar) >= 2
    /\ AtDollar[1] = "$"
    /\ AtDollar[2] = "$"

C7_Escaping ==
    /\ [][C7_AtEscape =>
            /\ result' = result \o SubSeq(input_str, 1, next_dollar_idx) \o <<"$">>
            /\ input_str' = SubSeq(AtDollar, 3, Len(AtDollar))
            /\ calls' = calls
            /\ pc' = "loop"]_vars
    /\ []((Done /\ op = "env" /\ input = <<"$", "$">>) => ret = Owned(<<"$">>))
    /\ []((Done /\ op = "env" /\ input = <<"a", "$", "$", "a">>) =>
             ret = Owned(<<"a", "$", "a">>))

\* `a$$a` with a lookup that fails for `a`
C7_Witness ==
    /\ Done /\ op = "env"
    /\ input = <<"a", "$", "$", "a">>
    /\ <<"a">> \in DOMAIN context
    /\ context[<<"a">>].tag = "Err"
    /\ calls = <<>>
    /\ ret.text = <<"a", "$", "a">>

(***************************************************************************)
(* C8: tilde_with_context consults the home-directory provider exactly     *)
(* when the input is `~` alone or starts with `~/`; the result is then the *)
(* text of the returned path followed by what follows the `~`, or the      *)
(* input when the provider returns nothing; every other input is returned  *)
(* unchanged without a call of the provider.                               *)
(***************************************************************************)
C8_TildeEligibility ==
    (Done /\ op = "tilde") =>
        IF EligibleTilde(input)
        THEN /\ Len(hd_log) = 1
             /\ ret = IF hd_log[1].tag = "Some"
                      THEN Owned(Display(hd_log[1].path) \o Tail(input))
                      ELSE Borrowed(input)
        ELSE /\ hd_log = <<>>
             /\ ret = Borrowed(input)

\* `~/...` with a home directory
C8_Witness ==
    /\ Done /\ op = "tilde"
    /\ EligibleTilde(input) /\ Len(input) > 2
    /\ hd_log = << HdSome(<<"h">>) >>
    /\ ret.text = <<"h">> \o Tail(input)

(***************************************************************************)
(* C9: in full_with_context, when the original input starts with `~`, the  *)
(* result is the tilde expansion of the text S that variable substitution  *)
(* produced: the provider is called exactly when S is `~` alone or starts  *)
(* with `~/`.                                                              *)
(***************************************************************************)
C9_TildeAfterSubstitution ==
    (Done /\ op = "full" /\ LeadingTilde(input) /\ IsText(env_ret)) =>
        IF EligibleTilde(env_ret.text)
        THEN /\ Len(hd_log) = 1
             /\ IsText(ret)
             /\ ret.text = SpecTilde(env_ret.text, hd_log[1])
        ELSE /\ hd_log = <<>>
             /\ IsText(ret)
             /\ ret.text = env_ret.text

\* `~$a` with a = `/`: the substituted text makes the tilde eligible
C9_Witness ==
    /\ Done /\ op = "full"
    /\ input = <<"~", "$", "a">>
    /\ calls = << <<(<<"a">>), OkSome(<<"/">>)>> >>
    /\ hd_log = << HdSome(<<"h">>) >>
    /\ ret = Owned(<<"h", "/">>)

(***************************************************************************)
(* C10: env_with_context runs to completion on every input: no slice it    *)
(* takes falls inside a character, so the call never ends in a panic.      *)
(***************************************************************************)
C10_RunsToCompletion == pc # "panic"

(***************************************************************************)
(* C11: at `${` with no `}` later in the input, env_with_context copies    *)
(* the two characters `${`, calls no lookup, returns no error and scans    *)
(* on at the character after `{`; `${a` gives `${a` also with a lookup     *)
(* that fails for `a`.                                                     *)
(***************************************************************************)
C11_AtMalformedBrace ==
    /\ pc = "loop"
    /\ Len(AtDollar) >= 2
    /\ AtDollar[1] = "$"
    /\ AtDollar[2] = "{"
    /\ \A i \in 1..Len(AtDollar) : AtDollar[i] # "}"

C11_MalformedBrace ==
    /\ [][C11_AtMalformedBrace =>
            /\ result' = result \o SubSeq(input_str, 1, next_dollar_idx) \o <<"$", "{">>
            /\ input_str' = SubSeq(AtDollar, 3, Len(AtDollar))
            /\ next_dollar_idx' =
                   IF HasDollar(input_str')
                   THEN (CHOOSE k \in 1..Len(input_str') :
                            /\ input_str'[k] = "$"
                            /\ \A j \in 1..(k - 1) : input_str'[j] # "$") - 1
                   ELSE Len(input_str')
            /\ calls' = calls
            /\ env_ret' = env_ret
            /\ ret' = ret
            /\ pc' = "loop"]_vars
    /\ []((Done /\ op = "env" /\ input = <<"$", "{", "a">>) =>
             ret = Owned(<<"$", "{", "a">>))

\* `${a` with a lookup that fails for `a`
C11_Witness ==
    /\ Done /\ op = "env"
    /\ input = <<"$", "{", "a">>
    /\ <<"a">> \in DOMAIN context
    /\ context[<<"a">>].tag = "Err"
    /\ calls = <<>>
    /\ ret.text = input

(***************************************************************************)
(* Names handed to the lookup                                              *)
(***************************************************************************)
\* the bytes of the alphanumeric characters and of `_`
C12_NameBytes == { "a", "_", "C3", "A9" }

C12_IsNameRun(name) == \A i \in 1..Len(name) : name[i] \in C12_NameBytes

\* the step calls the lookup
C12_LookupStep == calls' # calls

C12_NewName == calls'[Len(calls')][1]

C12_Braced == Len(AtDollar) >= 2 /\ AtDollar[2] = "{"

\* the scanner stands at `$NAME` and NAME cannot be extended
C12_BareMaximal(name) ==
    /\ name # <<>>
    /\ C12_IsNameRun(name)
    /\ Len(AtDollar) >= 1 + Len(name)
    /\ SubSeq(AtDollar, 1, 1 + Len(name)) = <<"$">> \o name
    /\ Len(AtDollar) > 1 + Len(name) => AtDollar[2 + Len(name)] \notin C12_NameBytes

\* the scanner stands at `${NAME}`
C12_BracedSpan(name) ==
    /\ Len(AtDollar) >= 3 + Len(name)
    /\ SubSeq(AtDollar, 1, 3 + Len(name)) = <<"$", "{">> \o name \o <<"}">>

(***************************************************************************)
(* C12 as written: every name passed to the lookup is a maximal run of     *)
(* alphanumeric characters and `_`, of length >= 1 in the bare form and    *)
(* >= 0 in the braced form, and holds no other character.                  *)
(***************************************************************************)
C12_NamesAreNameRuns ==
    [][C12_LookupStep =>
          IF C12_Braced
          THEN C12_BracedSpan(C12_NewName) /\ C12_IsNameRun(C12_NewName)
          ELSE C12_BareMaximal(C12_NewName)]_vars

(***************************************************************************)
(* C12 amended: a name passed to the lookup for the bare form `$NAME` is   *)
(* a maximal run of alphanumeric characters and `_` of length >= 1; for    *)
(* the braced form it is the whole text between `${` and the first `}`     *)
(* after it, of length >= 0, which may hold any character but `}`.         *)
(***************************************************************************)
C12_LookupNames ==
    [][C12_LookupStep =>
          IF C12_Braced
          THEN /\ C12_BracedSpan(C12_NewName)
               /\ \A i \in 1..Len(C12_NewName) : C12_NewName[i] # "}"
          ELSE C12_BareMaximal(C12_NewName)]_vars

\* `$a_/`: the name looked up is `a_`
C12_Witness ==
    /\ Done /\ op = "env"
    /\ input = <<"$", "a", "_", "/">>
    /\ Len(calls) = 1
    /\ CallName(1) = <<"a", "_">>

(***************************************************************************)
(* C13: text supplied by a provider is inserted as it is and never         *)
(* scanned: a substituted value goes to the output unchanged and the scan  *)
(* goes on in the input after the reference; the home directory goes to    *)
(* the output unchanged and no lookup follows it; so the lookup is called  *)
(* at most once per `$` of the input.                                      *)
(***************************************************************************)
C13_DollarCount(s) == Cardinality({ i \in 1..Len(s) : s[i] = "$" })

C13_ResolvedStep ==
    (calls' # calls /\ calls'[Len(calls')][2].tag = "Some") =>
        /\ result' = result \o SubSeq(input_str, 1, next_dollar_idx)
                            \o calls'[Len(calls')][2].value
        /\ AtDollar = C6_ReferenceOf(calls'[Len(calls')][1]) \o input_str'

C13_HomeStep ==
    (hd_log' # hd_log) => (calls' = calls /\ pc' = "done")

C13_ProviderTextVerbatim ==
    /\ [][C13_ResolvedStep /\ C13_HomeStep]_vars
    /\ [](Len(calls) <= C13_DollarCount(input))
    /\ []((Done /\ op = "full" /\ HomeReplaced) =>
             ret.text = Display(hd_log[1].path) \o Tail(env_ret.text))
    /\ []((Done /\ op = "env" /\ input = <<"$", "a">> /\ Substituted) =>
             (Len(calls) = 1 /\ ret.text = CallOutcome(1).value))

\* `~/$a` with a = `$a` and the home directory `$a`
C13_Witness ==
    /\ Done /\ op = "full"
    /\ input = <<"~", "/", "$", "a">>
    /\ calls = << <<(<<"a">>), OkSome(<<"$", "a">>)>> >>
    /\ hd_log = << HdSome(<<"$", "a">>) >>
    /\ ret.text = <<"$", "a", "/", "$", "a">>

====
